---- MODULE Spec2Model ----
(***************************************************************************)
(* Model of mlflow-a2a-agent/mcp_tools.py: dynamic MCP tool registration.  *)
(*                                                                         *)
(* Python strings are sequences of tokens (a token is a run of characters  *)
(* that no operation of the module splits); "" is << >> and + is \o.       *)
(* A JSON object is a record with a has<Key> flag for each optional key.   *)
(***************************************************************************)
EXTENDS Integers, Sequences, FiniteSets, TLC

VARIABLES
    env,               \* os.environ without MCP_SERVERS_JSON: var -> [set, val]
    mcp_servers_json,  \* os.environ["MCP_SERVERS_JSON"]: [set, val], val a document
    config,            \* [loaded, servers]: the list load_mcp_config last returned
    registry,          \* the list create_mcp_client_tools last returned
    call               \* the call in progress: <<fn, inp, raised, ret, sent>>

vars == <<env, mcp_servers_json, config, registry, call>>

fn == call[1]       \* the function called ("none" between calls)
inp == call[2]      \* its inputs
raised == call[3]   \* the exception it raised, or "none"
ret == call[4]      \* its return value (when it did not raise)
sent == call[5]     \* the HTTP requests it posted, in order

(***************************************************************************)
(* Bounds of the model.                                                    *)
(***************************************************************************)
MaxServers == 2     \* servers in MCP_SERVERS_JSON
MaxTools == 2       \* tool definitions in one tools/list response
MaxContent == 2     \* elements of result.content in one tools/call response
MaxMessages == 2    \* messages handed to MCPClientTool.run

(***************************************************************************)
(* Sequences of length at most n over S.                                   *)
(***************************************************************************)
SeqUpTo(S, n) == UNION {[1..k -> S] : k \in 0..n}

RECURSIVE Concat(_)
Concat(ss) == IF ss = <<>> THEN <<>> ELSE Head(ss) \o Concat(Tail(ss))

\* sep.join(parts) of Python
RECURSIVE Join(_, _)
Join(sep, parts) ==
    IF parts = <<>> THEN <<>>
    ELSE IF Len(parts) = 1 THEN parts[1]
    ELSE parts[1] \o sep \o Join(sep, Tail(parts))

(***************************************************************************)
(* Environment and ${VAR} substitution.                                    *)
(***************************************************************************)
EnvVars == {"TOKEN"}
Placeholders == {"${TOKEN}"}
VarName(tok) == CASE tok = "${TOKEN}" -> "TOKEN"

Unset == [set |-> FALSE, val |-> <<>>]
EnvVal(s) == [set |-> TRUE, val |-> s]

\* os.getenv(name, default)
getenv(name, default) == IF env[name].set THEN env[name].val ELSE default

\* re.sub(r'\$\{(\w+)\}', replace, value): one left-to-right pass; the
\* replacement text is not scanned again.
RECURSIVE substitute_env_vars(_)
substitute_env_vars(value) ==
    IF value = <<>> THEN <<>>
    ELSE (IF Head(value) \in Placeholders
          THEN getenv(VarName(Head(value)), <<>>)
          ELSE <<Head(value)>>) \o substitute_env_vars(Tail(value))

(***************************************************************************)
(* Server descriptors (the items of MCP_SERVERS_JSON).  headers maps each  *)
(* header name to [isStr, s]: a JSON string s, or a JSON number.           *)
(***************************************************************************)
NoHeaders == [k \in {} |-> [isStr |-> TRUE, s |-> <<>>]]
Headers(v) == [k \in {"Authorization"} |-> v]
HStr(s) == [isStr |-> TRUE, s |-> s]
HNum == [isStr |-> FALSE, s |-> <<>>]

Server(hasName, name, hasUrl, url, headers, tools) ==
    [hasName |-> hasName, name |-> name, hasUrl |-> hasUrl, url |-> url,
     headers |-> headers, tools |-> tools]

\* {"name":"fs","url":"http://fs","headers":{"Authorization":"Bearer ${TOKEN}"}}
SrvFs == Server(TRUE, <<"fs">>, TRUE, <<"http://fs">>,
                Headers(HStr(<<"Bearer ", "${TOKEN}">>)), <<>>)
\* {"name":"db","url":"http://db","tools":["read"]}
SrvDb == Server(TRUE, <<"db">>, TRUE, <<"http://db">>, NoHeaders, <<<<"read">>>>)
\* {"url":"http://anon"}
SrvNoName == Server(FALSE, <<>>, TRUE, <<"http://anon">>, NoHeaders, <<>>)
\* {"name":"nu"}
SrvNoUrl == Server(TRUE, <<"nu">>, FALSE, <<>>, NoHeaders, <<>>)
\* {"name":"id","url":"http://id","headers":{"Authorization":5}}
SrvNumHeader == Server(TRUE, <<"id">>, TRUE, <<"http://id">>, Headers(HNum), <<>>)

(***************************************************************************)
(* Config Loader.                                                          *)
(***************************************************************************)
\* substitute_env_vars over the whole JSON text reaches every string in it
SubstituteServer(s) ==
    [s EXCEPT !.name = substitute_env_vars(@),
              !.url = substitute_env_vars(@),
              !.headers = [k \in DOMAIN @ |->
                              IF @[k].isStr THEN HStr(substitute_env_vars(@[k].s))
                              ELSE @[k]],
              !.tools = [i \in DOMAIN @ |-> substitute_env_vars(@[i])]]

HasQuote(s) == \E i \in DOMAIN s : s[i] = "\""

\* the strings of one descriptor, as they stand in the JSON text
ServerStrings(s) ==
    {s.name, s.url} \cup {s.headers[k].s : k \in DOMAIN s.headers}
                    \cup {s.tools[i] : i \in DOMAIN s.tools}

\* json.loads raises JSONDecodeError when a substituted value closes its
\* string literal early (a bare double quote inside it)
JsonDecodes(doc) == \A i \in DOMAIN doc : \A str \in ServerStrings(doc[i]) : ~HasQuote(str)

load_mcp_config ==
    LET config_str == IF mcp_servers_json.set THEN mcp_servers_json.val ELSE <<>>
        substituted == [i \in DOMAIN config_str |-> SubstituteServer(config_str[i])]
    IN  IF JsonDecodes(substituted) THEN substituted ELSE <<>>

(***************************************************************************)
(* HTTP.  An outcome is what httpx.post, raise_for_status and              *)
(* response.json() do for one request: an exception, or a decoded body.    *)
(***************************************************************************)
Raise(exc, requests) == [exc |-> exc, ret |-> <<>>, sent |-> requests]
Return(value, requests) == [exc |-> "none", ret |-> value, sent |-> requests]

HttpFailures == {"ConnectError", "ReadTimeout", "HTTPStatusError", "JSONDecodeError"}
Failed(kind, noBody) == [kind |-> kind, body |-> noBody]
Ok(body) == [kind |-> "ok", body |-> body]

NoArguments == [type |-> "NoneType", text |-> "null"]

Request(method, server_config, headers, name, arguments) ==
    [method |-> method, url |-> server_config.url, headers |-> headers,
     name |-> name, arguments |-> arguments]

\* {k: substitute_env_vars(v) for k, v in headers.items()}
BuildHeaders(server_config) ==
    [k \in DOMAIN server_config.headers |-> substitute_env_vars(server_config.headers[k].s)]

HeadersAreStrings(server_config) ==
    \A k \in DOMAIN server_config.headers : server_config.headers[k].isStr

(***************************************************************************)
(* Tool Discovery.  A tools/list body is                                   *)
(*   [hasResult, resultIsDict, hasTools, tools], tools = [kind, items]     *)
(* with kind "list" (items: the tool definitions), "int" or "str".         *)
(***************************************************************************)
ToolDef(isDict, hasName, name) == [isDict |-> isDict, hasName |-> hasName, name |-> name]
ToolList(items) == [kind |-> "list", items |-> items]
EmptyList == ToolList(<<>>)

ListBody(hasResult, resultIsDict, hasTools, tools) ==
    [hasResult |-> hasResult, resultIsDict |-> resultIsDict,
     hasTools |-> hasTools, tools |-> tools]

\* the try block of discover_mcp_tools: "except" when anything in it raises
DiscoverTry(server_config, outcome) ==
    IF outcome.kind # "ok" THEN "except"
    ELSE LET result == outcome.body IN
         IF ~result.hasResult THEN (IF server_config.hasName THEN "empty" ELSE "except")
         ELSE IF ~result.resultIsDict THEN "except"
         ELSE IF ~result.hasTools THEN (IF server_config.hasName THEN "empty" ELSE "except")
         ELSE IF result.tools.kind = "int" THEN "except"
         ELSE IF ~server_config.hasName THEN "except"
         ELSE "tools"

discover_mcp_tools(server_config, outcome) ==
    IF ~server_config.hasUrl THEN Raise("KeyError", <<>>)
    ELSE IF ~HeadersAreStrings(server_config) THEN Raise("TypeError", <<>>)
    ELSE LET request == Request("tools/list", server_config,
                                BuildHeaders(server_config), <<>>, NoArguments)
             try == DiscoverTry(server_config, outcome)
         IN  IF try = "tools" THEN Return(outcome.body.tools, <<request>>)
             ELSE IF try = "empty" THEN Return(EmptyList, <<request>>)
             ELSE IF ~server_config.hasName THEN Raise("KeyError", <<request>>)
             ELSE Return(EmptyList, <<request>>)

(***************************************************************************)
(* Tool Invocation.  A tools/call body is                                  *)
(*   [hasResult, result, hasError, error] (plus "jsonrpc" and "id"),       *)
(*   result = [isDict, hasContent, content], content = [kind, items, text],*)
(*   error = [isDict, hasMessage, message].                                *)
(* A content element is [isDict, hasText, textIsStr, text]: a mapping with *)
(* a string "text", with "text": null, without "text", or a bare string.   *)
(***************************************************************************)
Elem(isDict, hasText, textIsStr, text) ==
    [isDict |-> isDict, hasText |-> hasText, textIsStr |-> textIsStr, text |-> text]
TextElem(text) == Elem(TRUE, TRUE, TRUE, text)   \* {"type":"text","text":text}
NullTextElem == Elem(TRUE, TRUE, FALSE, <<>>)     \* {"type":"text","text":null}
ImageElem == Elem(TRUE, FALSE, FALSE, <<>>)       \* {"type":"image"}
BareElem(text) == Elem(FALSE, FALSE, FALSE, text) \* "text"

Content(kind, items, text) == [kind |-> kind, items |-> items, text |-> text]
ContentList(items) == Content("list", items, <<>>)
Result(isDict, hasContent, content) ==
    [isDict |-> isDict, hasContent |-> hasContent, content |-> content]
Error(isDict, hasMessage, message) ==
    [isDict |-> isDict, hasMessage |-> hasMessage, message |-> message]
CallBody(hasResult, result, hasError, error) ==
    [hasResult |-> hasResult, result |-> result, hasError |-> hasError, error |-> error]

NoResult == Result(FALSE, FALSE, ContentList(<<>>))
NoError == Error(FALSE, FALSE, <<>>)

\* str(c) of a content element
PyStrElem(c) ==
    IF ~c.isDict THEN <<"'">> \o c.text \o <<"'">>
    ELSE IF ~c.hasText THEN <<"{'type': 'image'}">>
    ELSE IF c.textIsStr THEN <<"{'type': 'text', 'text': '">> \o c.text \o <<"'}">>
    ELSE <<"{'type': 'text', 'text': None}">>

\* str(content)
PyStrContent(content) ==
    IF content.kind = "list"
    THEN <<"[">> \o Join(<<", ">>, [i \in DOMAIN content.items |-> PyStrElem(content.items[i])])
               \o <<"]">>
    ELSE content.text

\* str(result) of a body with neither "result" nor "error"
PyStrBody(result) == <<"{'jsonrpc': '2.0', 'id': 1}">>

\* SelectDicts without the isinstance filter
SelectDicts_Unfiltered(items) == items

\* [c ... for c in content if isinstance(c, dict)]
RECURSIVE SelectDicts(_)
SelectDicts(items) ==
    IF items = <<>> THEN <<>>
    ELSE (IF Head(items).isDict THEN <<Head(items)>> ELSE <<>>) \o SelectDicts(Tail(items))

Value(v) == [exc |-> "none", value |-> v]
Throw(exc) == [exc |-> exc, value |-> <<>>]

\* lines 120-123: the text of result.content
ExtractContent(content) ==
    IF content.kind = "list"
    THEN LET dicts == SelectDicts(content.items)
             \* c.get("text", str(c))
             texts == [i \in DOMAIN dicts |->
                          IF dicts[i].hasText THEN dicts[i].text ELSE PyStrElem(dicts[i])]
         IN  IF dicts = <<>> THEN Value(PyStrContent(content))
             ELSE IF \E i \in DOMAIN dicts : dicts[i].hasText /\ ~dicts[i].textIsStr
                  THEN Throw("TypeError")
             ELSE Value(Join(<<"\n">>, texts))
    ELSE Value(PyStrContent(content))

\* Normalise with the "error" branch tested before the "result" branch
Normalise_ErrorFirst(result) ==
    IF result.hasError
    THEN IF ~result.error.isDict THEN Throw("AttributeError")
         ELSE Value(<<"Error: ">> \o (IF result.error.hasMessage THEN result.error.message
                                     ELSE <<"Unknown error">>))
    ELSE IF result.hasResult
    THEN IF ~result.result.isDict THEN Throw("AttributeError")
         ELSE ExtractContent(IF result.result.hasContent THEN result.result.content
                             ELSE ContentList(<<>>))
    ELSE Value(PyStrBody(result))

\* lines 117-127: the normalisation of a decoded body
Normalise(result) ==
    IF result.hasResult
    THEN IF ~result.result.isDict THEN Throw("AttributeError")
         ELSE ExtractContent(IF result.result.hasContent THEN result.result.content
                             ELSE ContentList(<<>>))
    ELSE IF result.hasError
    THEN IF ~result.error.isDict THEN Throw("AttributeError")
         ELSE Value(<<"Error: ">> \o (IF result.error.hasMessage THEN result.error.message
                                     ELSE <<"Unknown error">>))
    ELSE Value(PyStrBody(result))

\* the try block of call_mcp_tool
CallTry(outcome) ==
    IF outcome.kind # "ok" THEN Throw(outcome.kind) ELSE Normalise(outcome.body)

call_mcp_tool(server_config, tool_name, arguments, outcome) ==
    IF ~server_config.hasUrl THEN Raise("KeyError", <<>>)
    ELSE IF ~HeadersAreStrings(server_config) THEN Raise("TypeError", <<>>)
    ELSE LET request == Request("tools/call", server_config,
                                BuildHeaders(server_config), tool_name, arguments)
             try == CallTry(outcome)
         IN  IF try.exc = "none" THEN Return(try.value, <<request>>)
             ELSE Return(<<"Error calling tool: ", try.exc>>, <<request>>)

(***************************************************************************)
(* Tool Wrapper.                                                           *)
(***************************************************************************)
\* f"{server_config['name']}_{tool_definition['name']}"
WrapperName(server_config, tool_definition) ==
    server_config.name \o <<"_">> \o tool_definition.name

\* MCPClientTool.__init__: [exc, value], value the wrapper
MCPClientTool(server_config, tool_definition) ==
    IF ~server_config.hasName THEN Throw("KeyError")
    ELSE IF ~tool_definition.isDict THEN Throw("TypeError")
    ELSE IF ~tool_definition.hasName THEN Throw("KeyError")
    ELSE Value([server_config |-> server_config,
                tool_definition |-> tool_definition,
                name |-> WrapperName(server_config, tool_definition)])

get_name(self) == self.name

\* A JSON value is [type, text]: its Python type and its JSON text.
JsonValue(type, text) == [type |-> type, text |-> text]
EmptyDict == JsonValue("dict", "{}")

\* json.loads(text): the value the text denotes, or JSONDecodeError
json_loads(text) ==
    CASE text = "{}" -> Value(JsonValue("dict", text))
      [] text = "{\"path\": \"x\"}" -> Value(JsonValue("dict", text))
      [] text = "[1, 2]" -> Value(JsonValue("list", text))
      [] text = "7" -> Value(JsonValue("int", text))
      [] OTHER -> Throw("JSONDecodeError")

ToolCall(call_id, arguments) == [call_id |-> call_id, arguments |-> arguments]
Message(tool_calls) == [tool_calls |-> tool_calls]

NoMetadata == [k \in {} |-> <<>>]
ToolResponse(call_id, tool_name, content, metadata) ==
    [call_id |-> call_id, tool_name |-> tool_name, content |-> content,
     metadata |-> metadata]

\* lines 193-198: the arguments handed to call_mcp_tool
ParseArguments(arguments) ==
    IF arguments.type = "str"
    THEN LET decoded == json_loads(arguments.text)
         IN  IF decoded.exc = "none" THEN decoded.value ELSE EmptyDict
    ELSE arguments

\* run reading the first message instead of the last
run_FirstMessage(self, messages, outcome) ==
    IF messages = <<>>
    THEN Return(ToolResponse("unknown", self.name, <<"No messages provided">>, NoMetadata),
                <<>>)
    ELSE LET last_message == messages[1] IN
         IF last_message.tool_calls = <<>>
         THEN Return(ToolResponse("unknown", self.name, <<"No tool calls in message">>,
                                  NoMetadata), <<>>)
         ELSE LET tool_call == last_message.tool_calls[1]
                  arguments == ParseArguments(tool_call.arguments)
                  result == call_mcp_tool(self.server_config, self.tool_definition.name,
                                          arguments, outcome)
              IN  IF result.exc # "none" THEN Raise(result.exc, result.sent)
                  ELSE Return(ToolResponse(tool_call.call_id, self.name, result.ret,
                                           [k \in {"mcp_server"} |-> self.server_config.name]),
                              result.sent)

\* MCPClientTool.run
run(self, messages, outcome) ==
    IF messages = <<>>
    THEN Return(ToolResponse("unknown", self.name, <<"No messages provided">>, NoMetadata),
                <<>>)
    ELSE LET last_message == messages[Len(messages)] IN
         IF last_message.tool_calls = <<>>
         THEN Return(ToolResponse("unknown", self.name, <<"No tool calls in message">>,
                                  NoMetadata), <<>>)
         ELSE LET tool_call == last_message.tool_calls[1]
                  arguments == ParseArguments(tool_call.arguments)
                  result == call_mcp_tool(self.server_config, self.tool_definition.name,
                                          arguments, outcome)
              IN  IF result.exc # "none" THEN Raise(result.exc, result.sent)
                  ELSE Return(ToolResponse(tool_call.call_id, self.name, result.ret,
                                           [k \in {"mcp_server"} |-> self.server_config.name]),
                              result.sent)

\* MCPClientTool.async_run
async_run(self, messages, outcome) == run(self, messages, outcome)

(***************************************************************************)
(* Registry Builder.                                                       *)
(***************************************************************************)
\* tool_whitelist and tool_name not in tool_whitelist
Skipped(tool_whitelist, tool_name) ==
    tool_whitelist # <<>> /\ ~(\E i \in DOMAIN tool_whitelist : tool_whitelist[i] = tool_name)

\* lines 236-247 over a list of tool definitions: [exc, value], value the
\* tools list after the loop
RECURSIVE RegisterTools(_, _, _)
RegisterTools(server_config, mcp_tools, tools) ==
    IF mcp_tools = <<>> THEN Value(tools)
    ELSE LET tool_def == Head(mcp_tools) IN
         IF ~tool_def.isDict THEN Throw("AttributeError")
         ELSE LET tool_name == IF tool_def.hasName THEN tool_def.name ELSE <<>> IN
              IF Skipped(server_config.tools, tool_name)
              THEN RegisterTools(server_config, Tail(mcp_tools), tools)
              ELSE LET client_tool == MCPClientTool(server_config, tool_def) IN
                   IF client_tool.exc # "none" THEN Throw(client_tool.exc)
                   ELSE RegisterTools(server_config, Tail(mcp_tools),
                                      Append(tools, client_tool.value))

\* the elements a for loop sees in what discover_mcp_tools returned: a
\* string yields its characters, which are no mappings
Iterate(mcp_tools) ==
    IF mcp_tools.kind = "list" THEN mcp_tools.items
    ELSE <<ToolDef(FALSE, FALSE, <<>>)>>

\* lines 227-247 from server i on
RECURSIVE RegisterServers(_, _, _, _, _)
RegisterServers(servers, outcomes, i, tools, requests) ==
    IF i > Len(servers) THEN Return(tools, requests)
    ELSE LET server_config == servers[i]
             mcp_tools == discover_mcp_tools(server_config, outcomes[i])
             posted == requests \o mcp_tools.sent
         IN  IF mcp_tools.exc # "none" THEN Raise(mcp_tools.exc, posted)
             ELSE LET registered == RegisterTools(server_config, Iterate(mcp_tools.ret), tools)
                  IN  IF registered.exc # "none" THEN Raise(registered.exc, posted)
                      ELSE RegisterServers(servers, outcomes, i + 1, registered.value, posted)

create_mcp_client_tools(outcomes) ==
    RegisterServers(load_mcp_config, outcomes, 1, <<>>, <<>>)

(***************************************************************************)
(* Inputs.                                                                 *)
(***************************************************************************)
EnvValues == {Unset, EnvVal(<<"t1">>), EnvVal(<<"t2">>), EnvVal(<<"\"">>)}

Documents(servers) == {[set |-> TRUE, val |-> doc] : doc \in SeqUpTo(servers, MaxServers)}
                          \cup {[set |-> FALSE, val |-> <<>>]}

ToolDefs == {ToolDef(TRUE, TRUE, <<"read">>), ToolDef(TRUE, TRUE, <<"write">>),
             ToolDef(TRUE, FALSE, <<>>)}

NoListBody == ListBody(FALSE, FALSE, FALSE, EmptyList)
ListBodies ==
    {NoListBody,                                       \* {"jsonrpc":"2.0","id":1}
     ListBody(TRUE, FALSE, FALSE, EmptyList),          \* {"result":null}
     ListBody(TRUE, TRUE, FALSE, EmptyList),           \* {"result":{}}
     ListBody(TRUE, TRUE, TRUE, [kind |-> "int", items |-> <<>>]),   \* {"tools":5}
     ListBody(TRUE, TRUE, TRUE, [kind |-> "str", items |-> <<>>])}   \* {"tools":"ab"}
    \cup {ListBody(TRUE, TRUE, TRUE, ToolList(items)) : items \in SeqUpTo(ToolDefs, MaxTools)}

ListOutcomes == {Failed(k, NoListBody) : k \in HttpFailures} \cup {Ok(b) : b \in ListBodies}

Elems == {TextElem(<<"hi">>), TextElem(<<>>), NullTextElem, ImageElem, BareElem(<<"x">>)}
Contents == {Content("str", <<>>, <<"plain">>), Content("int", <<>>, <<"7">>)}
                \cup {ContentList(items) : items \in SeqUpTo(Elems, MaxContent)}
Results == {NoResult, Result(TRUE, FALSE, ContentList(<<>>))}
               \cup {Result(TRUE, TRUE, c) : c \in Contents}
Errors == {NoError, Error(TRUE, FALSE, <<>>), Error(TRUE, TRUE, <<"bad">>)}

NoCallBody == CallBody(FALSE, NoResult, FALSE, NoError)
CallBodies ==
    {CallBody(hasResult, result, hasError, error) :
        hasResult \in BOOLEAN, result \in Results, hasError \in BOOLEAN, error \in Errors}
CallOutcomes == {Failed(k, NoCallBody) : k \in HttpFailures} \cup {Ok(b) : b \in CallBodies}

ToolNames == {<<"read">>}
Arguments == {EmptyDict, JsonValue("dict", "{\"path\": \"x\"}")}

(***************************************************************************)
(* Operations.  Each records the call in fn and inp, what it raised or     *)
(* returned in raised and ret, and the requests it posted in sent.         *)
(***************************************************************************)
Observe(name, input, outcome) ==
    /\ fn = "none"
    /\ call' = <<name, input, outcome.exc, outcome.ret, outcome.sent>>

\* os.environ[name] = value, or del os.environ[name]
SetEnv(name, value) ==
    /\ env[name] # value
    /\ env' = [env EXCEPT ![name] = value]
    /\ Observe("putenv", [name |-> name, value |-> value], Return(<<>>, <<>>))
    /\ UNCHANGED <<mcp_servers_json, config, registry>>

LoadConfig ==
    /\ config' = [loaded |-> TRUE, servers |-> load_mcp_config]
    /\ Observe("load_mcp_config", [env |-> env], Return(load_mcp_config, <<>>))
    /\ UNCHANGED <<env, mcp_servers_json, registry>>

\* discover_mcp_tools on server i of the loaded config
Discover(i, outcome) ==
    /\ config.loaded
    /\ i \in DOMAIN config.servers
    /\ Observe("discover_mcp_tools",
               [index |-> i, server_config |-> config.servers[i], outcome |-> outcome],
               discover_mcp_tools(config.servers[i], outcome))
    /\ UNCHANGED <<env, mcp_servers_json, config, registry>>

\* call_mcp_tool on a server descriptor (server i of the loaded config when i > 0)
Call(i, server_config, tool_name, arguments, outcome) ==
    /\ Observe("call_mcp_tool",
               [index |-> i, server_config |-> server_config, tool_name |-> tool_name,
                arguments |-> arguments, outcome |-> outcome],
               call_mcp_tool(server_config, tool_name, arguments, outcome))
    /\ UNCHANGED <<env, mcp_servers_json, config, registry>>

CallLoaded(i, tool_name, arguments, outcome) ==
    /\ config.loaded
    /\ i \in DOMAIN config.servers
    /\ Call(i, config.servers[i], tool_name, arguments, outcome)

Create(outcomes) ==
    LET built == create_mcp_client_tools(outcomes) IN
    /\ Observe("create_mcp_client_tools",
               [servers |-> load_mcp_config, outcomes |-> outcomes], built)
    /\ registry' = IF built.exc = "none" THEN built.ret ELSE registry
    /\ UNCHANGED <<env, mcp_servers_json, config>>

Run(i, messages, outcome) ==
    /\ i \in DOMAIN registry
    /\ Observe("run", [self |-> registry[i], messages |-> messages, outcome |-> outcome],
               run(registry[i], messages, outcome))
    /\ UNCHANGED <<env, mcp_servers_json, config, registry>>

AsyncRun(i, messages, outcome) ==
    /\ i \in DOMAIN registry
    /\ Observe("async_run", [self |-> registry[i], messages |-> messages, outcome |-> outcome],
               async_run(registry[i], messages, outcome))
    /\ UNCHANGED <<env, mcp_servers_json, config, registry>>

\* the caller is done with what the last call returned
Finish ==
    /\ fn # "none"
    /\ call' = <<"none", <<>>, "none", <<>>, <<>>>>
    /\ UNCHANGED <<env, mcp_servers_json, config, registry>>

InitWith(envs, documents) ==
    /\ env \in [EnvVars -> envs]
    /\ mcp_servers_json \in documents
    /\ config = [loaded |-> FALSE, servers |-> <<>>]
    /\ registry = <<>>
    /\ call = <<"none", <<>>, "none", <<>>, <<>>>>

(***************************************************************************)
(* Spec: one registry build from each configuration.                       *)
(***************************************************************************)
Init == InitWith({EnvVal(<<"t1">>)}, Documents({SrvFs, SrvDb}))

Next == \E outcomes \in [DOMAIN load_mcp_config -> ListOutcomes] : Create(outcomes)

Spec == Init /\ [][Next]_vars

(***************************************************************************)
(* SpecNet: discovery and invocation on the servers of a loaded config,    *)
(* while the environment changes.                                          *)
(***************************************************************************)
NetCallOutcomes == {Failed("ConnectError", NoCallBody),
                    Ok(CallBody(TRUE, Result(TRUE, TRUE, ContentList(<<TextElem(<<"hi">>)>>)),
                                FALSE, NoError))}

InitNet == InitWith(EnvValues, Documents({SrvFs, SrvDb, SrvNoName}))

NextNet ==
    \/ \E name \in EnvVars, value \in EnvValues : SetEnv(name, value)
    \/ LoadConfig
    \/ \E i \in 1..MaxServers, outcome \in ListOutcomes : Discover(i, outcome)
    \/ \E i \in 1..MaxServers, tool_name \in ToolNames, arguments \in Arguments,
          outcome \in NetCallOutcomes : CallLoaded(i, tool_name, arguments, outcome)
    \/ Finish

SpecNet == InitNet /\ [][NextNet]_vars

(***************************************************************************)
(* SpecCall: call_mcp_tool on any server descriptor and any HTTP outcome.  *)
(***************************************************************************)
InitCall == InitWith(EnvValues, {[set |-> FALSE, val |-> <<>>]})

NextCall ==
    \/ \E name \in EnvVars, value \in EnvValues : SetEnv(name, value)
    \/ \E server_config \in {SrvFs, SrvDb, SrvNoName, SrvNoUrl, SrvNumHeader},
          tool_name \in ToolNames, arguments \in Arguments, outcome \in CallOutcomes :
          Call(0, server_config, tool_name, arguments, outcome)
    \/ Finish

SpecCall == InitCall /\ [][NextCall]_vars

(***************************************************************************)
(* SpecRun: the wrappers of a built registry are run.                      *)
(***************************************************************************)
Payloads == {EmptyDict,
             JsonValue("dict", "{\"path\": \"x\"}"),
             JsonValue("str", "{\"path\": \"x\"}"),
             JsonValue("str", "[1, 2]"),
             JsonValue("str", "oops")}

ToolCallLists ==
    {<<>>} \cup {<<ToolCall("c1", p)>> : p \in Payloads}
           \cup {<<ToolCall("c1", JsonValue("str", "{\"path\": \"x\"}")), ToolCall("c2", EmptyDict)>>}
           \cup {<<ToolCall("c2", EmptyDict), ToolCall("c1", JsonValue("str", "oops"))>>}

Messages == SeqUpTo({Message(tool_calls) : tool_calls \in ToolCallLists}, MaxMessages)

RunListOutcomes ==
    {Ok(ListBody(TRUE, TRUE, TRUE, ToolList(<<ToolDef(TRUE, TRUE, <<"read">>)>>))),
     Ok(ListBody(TRUE, TRUE, TRUE, ToolList(<<ToolDef(TRUE, TRUE, <<"read">>),
                                               ToolDef(TRUE, TRUE, <<"write">>)>>)))}

RunCallOutcomes ==
    {Failed("ReadTimeout", NoCallBody),
     Ok(CallBody(TRUE, Result(TRUE, TRUE, ContentList(<<TextElem(<<"hi">>)>>)), FALSE, NoError)),
     Ok(CallBody(FALSE, NoResult, TRUE, Error(TRUE, TRUE, <<"bad">>)))}

InitRun == InitWith({EnvVal(<<"t1">>)}, {[set |-> TRUE, val |-> <<SrvFs, SrvDb>>]})

NextRun ==
    \/ \E outcomes \in [DOMAIN load_mcp_config -> RunListOutcomes] : Create(outcomes)
    \/ \E i \in DOMAIN registry, messages \in Messages, outcome \in RunCallOutcomes :
          Run(i, messages, outcome)
    \/ \E i \in DOMAIN registry, messages \in Messages, outcome \in RunCallOutcomes :
          AsyncRun(i, messages, outcome)
    \/ Finish

SpecRun == InitRun /\ [][NextRun]_vars

(***************************************************************************)
(* Claims about the registry build (Spec).                                 *)
(***************************************************************************)
Built == fn = "create_mcp_client_tools"

\* the tool definitions a discovery response lists
Discovered(outcome) ==
    IF /\ outcome.kind = "ok"
       /\ outcome.body.hasResult
       /\ outcome.body.resultIsDict
       /\ outcome.body.hasTools
       /\ outcome.body.tools.kind = "list"
    THEN outcome.body.tools.items
    ELSE <<>>

\* a tool passes the whitelist iff the whitelist is empty or holds its name
PassesWhitelist(server_config, tool_def) ==
    \/ server_config.tools = <<>>
    \/ /\ tool_def.hasName
       /\ \E i \in DOMAIN server_config.tools : server_config.tools[i] = tool_def.name

RECURSIVE Whitelisted(_, _)
Whitelisted(server_config, tool_defs) ==
    IF tool_defs = <<>> THEN <<>>
    ELSE (IF PassesWhitelist(server_config, Head(tool_defs))
          THEN <<[server_config |-> server_config, tool_definition |-> Head(tool_defs)]>>
          ELSE <<>>) \o Whitelisted(server_config, Tail(tool_defs))

\* server by server, each discovered tool that passes the whitelist
ExpectedRegistry(servers, outcomes) ==
    Concat([i \in DOMAIN servers |-> Whitelisted(servers[i], Discovered(outcomes[i]))])

Pairs(tools) ==
    [j \in DOMAIN tools |-> [server_config |-> tools[j].server_config,
                             tool_definition |-> tools[j].tool_definition]]

\* C1: for any configured servers and any discovery responses,
\* create_mcp_client_tools returns exactly the wrappers of the discovered
\* tools that pass the whitelist, in server order and then response order.
C1_ExactRegistry ==
    Built => /\ raised = "none"
             /\ Pairs(ret) = ExpectedRegistry(inp.servers, inp.outcomes)

\* a server that answers with a list of well-formed tool definitions
WellBehaved(outcome) ==
    /\ Discovered(outcome) # <<>>
    /\ \A j \in DOMAIN Discovered(outcome) :
          Discovered(outcome)[j].isDict /\ Discovered(outcome)[j].hasName

\* C2: a misbehaving server never aborts the build: it completes without
\* raising and the result holds every whitelisted tool of every other server.
C2_BuildNeverAborts ==
    Built => /\ raised = "none"
             /\ \A i \in DOMAIN inp.servers :
                   WellBehaved(inp.outcomes[i]) =>
                       \A j \in DOMAIN Discovered(inp.outcomes[i]) :
                           PassesWhitelist(inp.servers[i], Discovered(inp.outcomes[i])[j]) =>
                               \E k \in DOMAIN ret :
                                   /\ ret[k].server_config = inp.servers[i]
                                   /\ ret[k].tool_definition = Discovered(inp.outcomes[i])[j]

\* C8: in every result of create_mcp_client_tools no two wrappers have the
\* same get_name() value.
C8_UniqueNames ==
    (Built /\ raised = "none") =>
        \A j, k \in DOMAIN ret : j # k => get_name(ret[j]) # get_name(ret[k])

\* Builds that return do return the whitelisted tools in order: the tools a
\* returned registry holds are exactly the expected ones.
ReturnedRegistryIsExact ==
    (Built /\ raised = "none") => Pairs(ret) = ExpectedRegistry(inp.servers, inp.outcomes)

(***************************************************************************)
(* Claims about discovery and header substitution (SpecNet).               *)
(***************************************************************************)
DiscoveredNow == fn = "discover_mcp_tools"

\* C3: discover_mcp_tools never raises: for every descriptor of the loaded
\* config and every outcome of the HTTP call it returns an empty sequence,
\* except that a successful response with a result.tools array returns that
\* array unchanged.
C3_DiscoverNeverRaises ==
    DiscoveredNow =>
        /\ raised = "none"
        /\ LET outcome == inp.outcome
               hasTools == /\ outcome.kind = "ok"
                           /\ outcome.body.hasResult
                           /\ outcome.body.resultIsDict
                           /\ outcome.body.hasTools
           IN  /\ ~hasTools => ret = EmptyList
               /\ (hasTools /\ outcome.body.tools.kind = "list") => ret = outcome.body.tools

HasPlaceholder(s) == \E j \in DOMAIN s : s[j] \in Placeholders

\* the descriptor of server i as written in MCP_SERVERS_JSON
Written(i) == mcp_servers_json.val[i]

\* a request was posted for server i of the loaded config, one of whose
\* header values was written with a placeholder
PlaceholderRequest ==
    /\ fn \in {"discover_mcp_tools", "call_mcp_tool"}
    /\ inp.index > 0
    /\ sent # <<>>
    /\ \E k \in DOMAIN Written(inp.index).headers :
          /\ Written(inp.index).headers[k].isStr
          /\ HasPlaceholder(Written(inp.index).headers[k].s)

\* C5: every discovery and invocation request on a loaded server whose
\* header was written with a ${VAR} placeholder sends the header built from
\* VAR's value at the time of the request, without the config being reloaded.
C5_FreshHeaders ==
    PlaceholderRequest =>
        \A k \in DOMAIN Written(inp.index).headers :
            sent[1].headers[k] = substitute_env_vars(Written(inp.index).headers[k].s)

(***************************************************************************)
(* Claims about call_mcp_tool (SpecCall).                                  *)
(***************************************************************************)
Called == fn = "call_mcp_tool"

\* whether the call fails: the request cannot be built, the HTTP exchange
\* fails, or the normalisation of the body raises
CallFails ==
    \/ ~inp.server_config.hasUrl
    \/ ~HeadersAreStrings(inp.server_config)
    \/ inp.outcome.kind # "ok"

\* C4: call_mcp_tool never propagates an exception: for every server
\* descriptor, tool name, arguments and HTTP outcome it returns a string, and
\* a failure during the call is returned as "Error calling tool: {exception}".
C4_CallNeverRaises ==
    Called =>
        /\ raised = "none"
        /\ CallFails => (Len(ret) = 2 /\ ret[1] = "Error calling tool: ")

\* a decoded body was received whose result is a mapping with a content array
ContentArrayReceived ==
    /\ Called
    /\ sent # <<>>
    /\ inp.outcome.kind = "ok"
    /\ inp.outcome.body.hasResult
    /\ inp.outcome.body.result.isDict
    /\ inp.outcome.body.result.hasContent
    /\ inp.outcome.body.result.content.kind = "list"

IsMapping(c) == c.isDict
TextOrStr(c) == IF c.hasText THEN c.text ELSE PyStrElem(c)
Lines(items) == [i \in DOMAIN items |-> TextOrStr(items[i])]

\* the text of a content array: the mappings' lines joined, the string form
\* of the array when it holds no mapping, the error text when a text field
\* is no string
ContentText(content) ==
    LET mappings == SelectSeq(content.items, IsMapping) IN
    IF mappings = <<>> THEN PyStrContent(content)
    ELSE IF \E i \in DOMAIN mappings : mappings[i].hasText /\ ~mappings[i].textIsStr
         THEN <<"Error calling tool: ", "TypeError">>
    ELSE Join(<<"\n">>, Lines(mappings))

\* C6 (amended): for a result whose content is an array, call_mcp_tool
\* returns the newline-joined text-or-string-form of the elements that are
\* mappings, in order; the string form of the whole array when no element is
\* a mapping; and the error text when a mapping's text is not a string.
C6_JoinsMappings ==
    ContentArrayReceived => ret = ContentText(inp.outcome.body.result.content)

\* an array with a mapping and a bare string: the bare string is left out
C6_Witness ==
    /\ ContentArrayReceived
    /\ inp.outcome.body.result.content.items = <<BareElem(<<"x">>), TextElem(<<"hi">>)>>
    /\ ret = <<"hi">>

AllTextsAreStrings(items) == \A i \in DOMAIN items : items[i].hasText => items[i].textIsStr

\* C6: for a result whose content is an array, call_mcp_tool returns the
\* newline-joined text-or-string-form of every element, in order, and the
\* string form of the whole array whenever that joined text is empty.
C6_JoinsEveryElement ==
    (ContentArrayReceived /\ AllTextsAreStrings(inp.outcome.body.result.content.items)) =>
        LET content == inp.outcome.body.result.content
            joined == Join(<<"\n">>, Lines(content.items))
        IN  ret = IF joined = <<>> THEN PyStrContent(content) ELSE joined

\* a decoded body was received whose "result" and "error" members, where
\* present, are mappings
BodyReceived ==
    /\ Called
    /\ sent # <<>>
    /\ inp.outcome.kind = "ok"
    /\ inp.outcome.body.hasResult => inp.outcome.body.result.isDict
    /\ inp.outcome.body.hasError => inp.outcome.body.error.isDict

\* the output derived from result.content
FromContent(result) ==
    IF ~result.hasContent THEN <<"[", "]">>
    ELSE IF result.content.kind = "list" THEN ContentText(result.content)
    ELSE result.content.text

Ran == fn \in {"run", "async_run"}

NothingPending ==
    /\ Ran
    /\ \/ inp.messages = <<>>
       \/ inp.messages[Len(inp.messages)].tool_calls = <<>>

Prefixed(self) == self.server_config.name \o <<"_">> \o self.tool_definition.name

\* C9: run and async_run, given no messages or a last message without a
\* pending tool call, return without raising a response with a fixed
\* diagnostic string, call_id "unknown" and the wrapper's name, and post no
\* tools/call request.
C9_NothingPending ==
    NothingPending =>
        /\ raised = "none"
        /\ ret.call_id = "unknown"
        /\ ret.tool_name = Prefixed(inp.self)
        /\ ret.content = IF inp.messages = <<>> THEN <<"No messages provided">>
                         ELSE <<"No tool calls in message">>
        /\ sent = <<>>

\* an earlier message carries a tool call, the last one does not
C9_Witness ==
    /\ fn = "async_run"
    /\ Len(inp.messages) = 2
    /\ inp.messages[1].tool_calls # <<>>
    /\ inp.messages[2].tool_calls = <<>>
    /\ ret.content = <<"No tool calls in message">>
    /\ sent = <<>>

Pending ==
    /\ Ran
    /\ inp.messages # <<>>
    /\ inp.messages[Len(inp.messages)].tool_calls # <<>>

\* the argument map of a payload: the map as given, the decoded map of a
\* string, the empty map of a string that does not decode
ArgumentMap(payload) ==
    IF payload.type = "str"
    THEN IF json_loads(payload.text).exc = "none"
         THEN JsonValue("dict", payload.text) ELSE EmptyDict
    ELSE payload

\* C10: with a pending tool call in the last message, run posts exactly one
\* tools/call request, to the wrapper's server, for the first pending call,
\* under the unprefixed tool name, with arguments that are always a mapping;
\* the response carries that call's call_id, the prefixed name, the
\* invocation's string and the server name in metadata.
C10_OneCallWithMapping ==
    Pending =>
        LET self == inp.self
            tool_call == inp.messages[Len(inp.messages)].tool_calls[1]
        IN  /\ raised = "none"
            /\ Len(sent) = 1
            /\ sent[1].method = "tools/call"
            /\ sent[1].url = self.server_config.url
            /\ sent[1].name = self.tool_definition.name
            /\ sent[1].arguments.type = "dict"
            /\ sent[1].arguments = ArgumentMap(tool_call.arguments)
            /\ ret.call_id = tool_call.call_id
            /\ ret.tool_name = Prefixed(self)
            /\ ret.content = call_mcp_tool(self.server_config, self.tool_definition.name,
                                           sent[1].arguments, inp.outcome).ret
            /\ ret.metadata = [k \in {"mcp_server"} |-> self.server_config.name]

====
